---- MODULE Spec2Model ----
(***************************************************************************)
(* Model of the LendingLibrary operation layer (lending-library.ts) over   *)
(* the Mongo collections handed out by LibraryDao (library-dao.ts).        *)
(*                                                                         *)
(* A JavaScript string is a sequence of one-character strings, so that     *)
(* Array.prototype.toString, the isbn pattern and (later) word matching    *)
(* are computed character by character.  A collection is the sequence of   *)
(* its documents in insertion order; LibraryDao.make creates no index, so  *)
(* a collection may hold several documents with the same key.  Every       *)
(* `await` of a storage call is one step of the calling process.           *)
(***************************************************************************)
EXTENDS Integers, Sequences, FiniteSets, TLC

VARIABLES
    books,     \* the books collection: its documents in insertion order
    loans,     \* the loans collection: its documents in insertion order
    pc,        \* pc[p]: where caller p's current call stands
    req,       \* req[p]: the request of p's current call
    found,     \* found[p]: the book document p's call read (<<>> for null)
    result,    \* result[p]: the result p's call returned
    pre,       \* pre[p]: the store when p's call started (history)
    overlap,   \* overlap[p]: the callers whose calls overlapped p's call (history)
    added,     \* added[isbn]: copies added by the successful addBook calls (history)
    calls,     \* number of calls started by concurrent callers (history)
    failures,  \* number of storage calls that failed (history)
    prev       \* prev[p]: the successful checkoutBook that p's returnBook call of
               \* the same pair immediately follows, with the store that checkout
               \* started from, or the successful addBook that p's findBooks
               \* call immediately follows; <<>> when there is none (history)

vars ==
    <<books, loans, pc, req, found, result, pre, overlap, added, calls, failures, prev>>

(***************************** bounds **************************************)

\* number of concurrent callers of the library
NumProcs == 2
\* total number of copies addBook may add for one isbn in a run
MaxAdded == 2
\* number of calls concurrent callers start in a run
MaxCalls == 4
\* number of storage calls that fail in a run
MaxFailures == 1

Procs == 1..NumProcs

(************************** program constants *****************************)

GUTENBERG_YEAR == 1448
NOW_YEAR == 2026
DEFAULT_COUNT == 5

(***************************** strings *************************************)

Digits == {"0", "1", "2", "3", "4", "5", "6", "7", "8", "9"}

ISBN_1 == <<"1", "2", "3", "-", "4", "5", "6", "-", "7", "8", "9", "-", "0">>
ISBN_2 == <<"1", "2", "3", "-", "4", "5", "6", "-", "7", "8", "9", "-", "1">>
ISBN_3 == <<"1", "2", "3", "-", "4", "5", "6", "-", "7", "8", "9", "-", "2">>
BAD_ISBN == <<"1", "2", "3">>
Isbns == {ISBN_1, ISBN_2, ISBN_3}

JOE == <<"j", "o", "e">>
SUE == <<"s", "u", "e">>
Patrons == {JOE, SUE}

\* /^\d{3}-\d{3}-\d{3}-\d$/
IsbnRegex(s) ==
    /\ Len(s) = 13
    /\ \A i \in 1..13 : IF i \in {4, 8, 12} THEN s[i] = "-" ELSE s[i] \in Digits

\* Array.prototype.toString(): the elements joined by ","
RECURSIVE ArrayToString(_)
ArrayToString(a) ==
    IF Len(a) = 0 THEN <<>>
    ELSE IF Len(a) = 1 THEN a[1]
    ELSE a[1] \o <<",">> \o ArrayToString(Tail(a))

(*************************** JavaScript values ****************************)

\* the value of a request field: a string, a number or undefined
JsString(s) == [type |-> "string", str |-> s, num |-> 0]
JsNumber(n) == [type |-> "number", str |-> <<>>, num |-> n]
Undefined == [type |-> "undefined", str |-> <<>>, num |-> 0]

\* req[f]: undefined for a field the request does not have
Field(r, f) == IF f \in DOMAIN r THEN r[f] ELSE Undefined

\* !x is false
Truthy(x) ==
    \/ x.type = "string" /\ x.str # <<>>
    \/ x.type = "number" /\ x.num # 0

(************************** request values ********************************)

AUTHOR_A == <<"A">>
AUTHOR_B == <<"B">>
AUTHOR_A_B == <<"A", ",", "B">>

BOOK_1 ==
    [isbn |-> ISBN_1, title |-> <<"J", "S">>, authors |-> <<AUTHOR_A, AUTHOR_B>>,
     pages |-> 100, year |-> 2000, publisher |-> <<"P">>]

\* BOOK_1 and the requests that differ from it in exactly one field
Book1Variants ==
    { BOOK_1,
      [BOOK_1 EXCEPT !.title = <<"T", "S">>],
      [BOOK_1 EXCEPT !.authors = <<AUTHOR_B, AUTHOR_A>>],
      [BOOK_1 EXCEPT !.authors = <<AUTHOR_A_B>>],
      [BOOK_1 EXCEPT !.pages = 200],
      [BOOK_1 EXCEPT !.year = 2001],
      [BOOK_1 EXCEPT !.publisher = <<"Q">>] }

BOOK_2 == [BOOK_1 EXCEPT !.isbn = ISBN_2, !.title = <<"G", "O">>]

\* requests the schema rejects
InvalidBooks ==
    { [BOOK_1 EXCEPT !.title = <<>>],
      [BOOK_1 EXCEPT !.isbn = BAD_ISBN],
      [BOOK_1 EXCEPT !.year = 1000] }

WithCopies(b, n) ==
    [f \in DOMAIN b \cup {"nCopies"} |-> IF f = "nCopies" THEN n ELSE b[f]]

\* the addBook requests: nCopies is optional
BookReqs ==
    Book1Variants \cup {BOOK_2}
        \cup {WithCopies(b, n) : b \in {BOOK_1, BOOK_2}, n \in 1..MaxAdded}
        \cup InvalidBooks \cup {WithCopies(BOOK_1, 0)}

\* a checkoutBook / returnBook request with two string fields
LendReq(pid, i) == [patronId |-> JsString(pid), isbn |-> JsString(i)]

\* the checkoutBook / returnBook requests; <<>> is the empty string
LendReqs ==
    { LendReq(JOE, ISBN_1),
      LendReq(SUE, ISBN_1),
      LendReq(JOE, ISBN_2),
      LendReq(<<>>, ISBN_1),
      LendReq(JOE, <<>>) }

\* the findBooks requests: index and count are optional
FindReqs ==
    { [search |-> JsString(<<"j", "s">>)],
      [search |-> JsString(<<"g", "o", " ", "x", " ", "T", "S">>),
       index |-> JsNumber(0), count |-> JsNumber(1)],
      [search |-> JsString(<<"j", " ", "s">>)],
      [index |-> JsNumber(0)] }

\* BOOK_1 without its publisher
BOOK_1_NO_PUBLISHER == [f \in DOMAIN BOOK_1 \ {"publisher"} |-> BOOK_1[f]]

\* the requests of the specification of request checking: one book and one
\* patron, and requests with fields absent, of another type or ill-formed
ReqBookReqs ==
    { BOOK_1, WithCopies(BOOK_1, 1),
      [BOOK_1 EXCEPT !.title = <<"T", "S">>],
      [BOOK_1 EXCEPT !.isbn = BAD_ISBN],
      BOOK_1_NO_PUBLISHER }
ReqLendReqs ==
    { LendReq(JOE, ISBN_1),
      [isbn |-> JsString(ISBN_1)],
      [patronId |-> JsString(JOE)],
      [patronId |-> JsNumber(7), isbn |-> JsString(ISBN_1)],
      [patronId |-> JsString(JOE), isbn |-> JsNumber(0)],
      [patronId |-> JsString(JOE), isbn |-> JsNumber(123)],
      LendReq(<<>>, ISBN_1),
      LendReq(JOE, BAD_ISBN) }
ReqFindReqs ==
    { [search |-> JsString(<<"j", "s">>)],
      [search |-> JsString(<<"j", "s">>), index |-> JsNumber(0), count |-> JsNumber(1)],
      [search1 |-> JsString(<<"j", "s">>)],
      [search |-> JsNumber(7)],
      [search |-> JsString(<<"j", " ", "h">>)],
      [search |-> JsString(<<"j", "<", "s", " ", "h", ".", "i">>)],
      [search |-> JsString(<<"j", "s">>), index |-> JsNumber(-1)],
      [search |-> JsString(<<"j", "s">>), count |-> JsNumber(-1)],
      [search |-> JsString(<<"j", "s">>), index |-> JsString(<<"x", "x">>)],
      [search |-> JsString(<<"j", "s">>), count |-> JsString(<<"x", "x">>)] }

\* the books of the specification of searches: titles and authors that share
\* words, in both cases
CAT_BOOK_1 ==
    [isbn |-> ISBN_1, title |-> <<"j", "s", " ", "g", "o">>,
     authors |-> <<<<"A", "l">>>>,
     pages |-> 100, year |-> 2000, publisher |-> <<"P">>]
CAT_BOOK_2 ==
    [isbn |-> ISBN_2, title |-> <<"J", "S">>,
     authors |-> <<<<"B", "o">>, <<"G", "o">>>>,
     pages |-> 100, year |-> 2000, publisher |-> <<"P">>]
CAT_BOOK_3 ==
    [isbn |-> ISBN_3, title |-> <<"a", "j", "s">>,
     authors |-> <<<<"A", "l">>>>,
     pages |-> 100, year |-> 2000, publisher |-> <<"P">>]

CatBookReqs ==
    {CAT_BOOK_1, CAT_BOOK_2, CAT_BOOK_3, [CAT_BOOK_2 EXCEPT !.pages = 200]}
CatLendReqs == {LendReq(JOE, ISBN_1)}

\* a findBooks request with its three fields
FindReq(search, index, count) ==
    [search |-> JsString(search), index |-> JsNumber(index), count |-> JsNumber(count)]

\* the searches: one word, two words, a word in another case, a word of one
\* character among others, no match, and pages of the matches
CatFindReqs ==
    { [search |-> JsString(<<"j", "s">>)],
      [search |-> JsString(<<"J", "s", " ", "g", "O">>)],
      [search |-> JsString(<<"a", "l", ",", "j", "s">>)],
      [search |-> JsString(<<"b", "o", " ", "a", "l">>)],
      [search |-> JsString(<<"g", "o", " ", "x">>)],
      [search |-> JsString(<<"z", "z">>)],
      [search |-> JsString(<<"J", "S">>)],
      FindReq(<<"j", "s">>, 1, 1),
      FindReq(<<"j", "s">>, 0, 2),
      FindReq(<<"j", "s">>, 3, 1),
      FindReq(<<"j", "s">>, 0, 0),
      FindReq(<<"j", "s">>, 1, 0) }

\* the requests of concurrent callers: one isbn, so that every call contends
ConcBookReqs ==
    {BOOK_1, WithCopies(BOOK_1, 2), [BOOK_1 EXCEPT !.title = <<"T", "S">>]}
ConcLendReqs == {LendReq(pid, ISBN_1) : pid \in Patrons \cup {<<>>}}
ConcFindReqs == {[search |-> JsString(<<"j", "s">>)]}

(****************************** results ***********************************)

\* Errors.okResult(val); val is <<>> for undefined, <<v>> otherwise
okResult(val) == [isOk |-> TRUE, code |-> "OK", message |-> "", val |-> val]

\* Errors.errResult(message, code)
errResult(message, code) ==
    [isOk |-> FALSE, code |-> code, message |-> message, val |-> <<>>]

NoResult == [isOk |-> FALSE, code |-> "PENDING", message |-> "", val |-> <<>>]
NoReq == [op |-> "none"]
NoPre == [books |-> <<>>, loans |-> <<>>]

(************************* collection operations **************************)

\* the indexes of the documents of collection c whose isbn is i
BookIdx(c, i) == {k \in 1..Len(c) : c[k].isbn = i}
LoanIdx(c, pid, i) == {k \in 1..Len(c) : c[k].patronId = pid /\ c[k].isbn = i}

Min(S) == CHOOSE k \in S : \A j \in S : k <= j

\* collection.findOne(filter): the first matching document, <<>> for null
FindOneBook(c, i) == IF BookIdx(c, i) = {} THEN <<>> ELSE <<c[Min(BookIdx(c, i))]>>
\* mutant: the filter's patronId left out
FindOneLoan_AnyPatron(c, pid, i) ==
    LET S == {k \in 1..Len(c) : c[k].isbn = i}
    IN  IF S = {} THEN <<>> ELSE <<c[Min(S)]>>

\* mutant: the filter's fields swapped
FindOneLoan_Swapped(c, pid, i) ==
    IF LoanIdx(c, i, pid) = {} THEN <<>> ELSE <<c[Min(LoanIdx(c, i, pid))]>>

FindOneLoan(c, pid, i) ==
    IF LoanIdx(c, pid, i) = {} THEN <<>> ELSE <<c[Min(LoanIdx(c, pid, i))]>>

\* mutant: updateMany({}, ...) in place of updateOne({isbn}, ...)
UpdateOneInc_Many(c, i, n) == [k \in 1..Len(c) |-> [c[k] EXCEPT !.nCopies = @ + n]]

\* mutant: $set in place of $inc
UpdateOneInc_Set(c, i, n) ==
    IF BookIdx(c, i) = {} THEN c
    ELSE [c EXCEPT ![Min(BookIdx(c, i))].nCopies = n]

\* collection.updateOne({isbn}, {$inc: {nCopies: n}}): the first match only
UpdateOneInc(c, i, n) ==
    IF BookIdx(c, i) = {} THEN c
    ELSE [c EXCEPT ![Min(BookIdx(c, i))].nCopies = @ + n]

\* collection.insertOne(doc)
InsertOne(c, doc) == Append(c, doc)

\* mutant: deleteMany({isbn}) in place of deleteOne({patronId, isbn})
DeleteOneLoan_Many(c, pid, i) == SelectSeq(c, LAMBDA d : d.isbn # i)

\* collection.deleteOne({patronId, isbn}): the first match only
DeleteOneLoan(c, pid, i) ==
    IF LoanIdx(c, pid, i) = {} THEN c
    ELSE LET k == Min(LoanIdx(c, pid, i))
         IN  SubSeq(c, 1, k - 1) \o SubSeq(c, k + 1, Len(c))

(****************************** addBook ***********************************)

\* the fields of Book that are not optional
RequiredBookFields == {"isbn", "title", "authors", "pages", "year", "publisher"}

\* Book.safeParse(req).success, the fields present having the right types
ValidBook(b) ==
    /\ RequiredBookFields \subseteq DOMAIN b
    /\ IsbnRegex(b.isbn)
    /\ Len(b.title) >= 1
    /\ Len(b.authors) >= 1
    /\ \A k \in 1..Len(b.authors) : Len(b.authors[k]) >= 1
    /\ b.pages > 0
    /\ b.year >= GUTENBERG_YEAR /\ b.year <= NOW_YEAR
    /\ Len(b.publisher) >= 1
    /\ ("nCopies" \in DOMAIN b => b.nCopies > 0)

\* mutant: the default of 1 left out
NCopies_NoDefault(b) == IF "nCopies" \in DOMAIN b THEN b.nCopies ELSE 0

\* const nCopies = book.nCopies || 1
NCopies(b) == IF "nCopies" \in DOMAIN b /\ b.nCopies # 0 THEN b.nCopies ELSE 1

\* the condition under which addBook rejects a request for an existing book
Inconsistent(existingBook, book) ==
    \/ existingBook.title # book.title
    \/ ArrayToString(existingBook.authors) # ArrayToString(book.authors)
    \/ existingBook.year # book.year
    \/ existingBook.publisher # book.publisher

\* the copy count a request asks for (1 when nCopies is absent)
Requested(b) == IF "nCopies" \in DOMAIN b THEN b.nCopies ELSE 1

\* {...book, nCopies}
BookDoc(book, nCopies) == WithCopies(book, nCopies)

Active(q) == pc[q] \notin {"idle", "done"}

\* bookkeeping common to the start of every call: the store as the call
\* found it, and the calls in progress at that moment
Begin(p, r) ==
    /\ pc[p] = "idle"
    /\ req' = [req EXCEPT ![p] = r]
    /\ pre' = [pre EXCEPT ![p] = [books |-> books, loans |-> loans]]
    /\ overlap' = [q \in Procs |->
                     IF q = p THEN {o \in Procs \ {p} : Active(o)}
                     ELSE IF Active(q) THEN overlap[q] \cup {p}
                     ELSE overlap[q]]
    /\ prev' = [prev EXCEPT ![p] =
                  IF /\ prev[p] # <<>>
                     /\ \/ /\ r.op = "returnBook"
                           /\ prev[p][1].op = "checkoutBook"
                           /\ prev[p][1].patronId = r.patronId
                           /\ prev[p][1].isbn = r.isbn
                        \/ /\ r.op = "findBooks"
                           /\ prev[p][1].op = "addBook"
                  THEN prev[p]
                  ELSE <<>>]

Return(p, res) ==
    /\ pc' = [pc EXCEPT ![p] = "done"]
    /\ result' = [result EXCEPT ![p] = res]

Goto(p, label) ==
    /\ pc' = [pc EXCEPT ![p] = label]
    /\ UNCHANGED result

\* the error Book validation reports
BookError(b) ==
    IF ~(RequiredBookFields \subseteq DOMAIN b)
    THEN errResult("Required", "MISSING")
    ELSE errResult("invalid book", "BAD_REQ")

\* addBook up to its first await: validation
AddBook(p, b) ==
    /\ ValidBook(b) => added[b.isbn] + Requested(b) <= MaxAdded
    /\ Begin(p, [op |-> "addBook", book |-> b])
    /\ IF ~ValidBook(b)
       THEN Return(p, BookError(b))
       ELSE Goto(p, "addFindOne")
    /\ UNCHANGED <<books, loans, found, added, failures>>

\* await findOne({isbn}), then the consistency check
AddFindOne(p) ==
    /\ pc[p] = "addFindOne"
    /\ LET book == req[p].book
           existingBook == FindOneBook(books, book.isbn)
       IN  /\ found' = [found EXCEPT ![p] = existingBook]
           /\ IF existingBook # <<>>
              THEN IF Inconsistent(existingBook[1], book)
                   THEN Return(p, errResult("inconsistent book data", "BAD_REQ"))
                   ELSE Goto(p, "addUpdateOne")
              ELSE Goto(p, "addInsertOne")
    /\ UNCHANGED <<books, loans, req, pre, overlap, added, calls, failures, prev>>

\* mutant: replaceOne({isbn}, {...book, nCopies: existing + nCopies}) in
\* place of the $inc
AddUpdateOne_Replace(p) ==
    /\ pc[p] = "addUpdateOne"
    /\ LET book == req[p].book
       IN  /\ books' = [k \in 1..Len(books) |->
                          IF k \in BookIdx(books, book.isbn)
                             /\ k = Min(BookIdx(books, book.isbn))
                          THEN BookDoc(book, books[k].nCopies + NCopies(book))
                          ELSE books[k]]
           /\ added' = [added EXCEPT ![book.isbn] = @ + Requested(book)]
           /\ Return(p, okResult(<<book>>))
    /\ UNCHANGED <<loans, req, found, pre, overlap, calls, failures, prev>>

\* await updateOne({isbn}, {$inc: {nCopies}}), then return okResult(book)
AddUpdateOne(p) ==
    /\ pc[p] = "addUpdateOne"
    /\ LET book == req[p].book
       IN  /\ books' = UpdateOneInc(books, book.isbn, NCopies(book))
           /\ added' = [added EXCEPT ![book.isbn] = @ + Requested(book)]
           /\ Return(p, okResult(<<book>>))
    /\ UNCHANGED <<loans, req, found, pre, overlap, calls, failures, prev>>

\* await insertOne({...book, nCopies}), then return okResult(book)
AddInsertOne(p) ==
    /\ pc[p] = "addInsertOne"
    /\ LET book == req[p].book
       IN  /\ books' = InsertOne(books, BookDoc(book, NCopies(book)))
           /\ added' = [added EXCEPT ![book.isbn] = @ + Requested(book)]
           /\ Return(p, okResult(<<book>>))
    /\ UNCHANGED <<loans, req, found, pre, overlap, calls, failures, prev>>

(**************************** checkoutBook ********************************)

\* !x || typeof x !== "string"
MissingOrInvalid(x) == ~Truthy(x) \/ x.type # "string"

\* mutant: the check of the copies left out
NoCopies_Never(book) == FALSE

\* mutant: < in place of <=
NoCopies_OffByOne(book) == book.nCopies < 0

\* book.nCopies <= 0
NoCopies(book) == book.nCopies <= 0

\* the loan document inserted by checkoutBook (checkedOutAt is not modelled)
LoanDoc(pid, i) == [patronId |-> pid, isbn |-> i]

\* the checks on patronId and isbn that open checkoutBook and returnBook
LendStart(p, op, r, label) ==
    /\ Begin(p, [op |-> op, patronId |-> Field(r, "patronId").str,
                 isbn |-> Field(r, "isbn").str, raw |-> r])
    /\ IF MissingOrInvalid(Field(r, "patronId"))
       THEN Return(p, errResult("Missing or invalid patronId", "MISSING"))
       ELSE IF MissingOrInvalid(Field(r, "isbn"))
       THEN Return(p, errResult("Missing or invalid isbn", "MISSING"))
       ELSE Goto(p, label)
    /\ UNCHANGED <<books, loans, found, added, failures>>

CheckoutBook(p, r) == LendStart(p, "checkoutBook", r, "coFindBook")

\* await booksCollection.findOne({isbn}), then the existence and copies checks
CoFindBook(p) ==
    /\ pc[p] = "coFindBook"
    /\ LET book == FindOneBook(books, req[p].isbn)
       IN  /\ found' = [found EXCEPT ![p] = book]
           /\ IF book = <<>>
              THEN Return(p, errResult("The book does not exist in the library", "BAD_REQ"))
              ELSE IF NoCopies(book[1])
              THEN Return(p, errResult("No copies of the book are available for checkout",
                                       "BAD_REQ"))
              ELSE Goto(p, "coFindLoan")
    /\ UNCHANGED <<books, loans, req, pre, overlap, added, calls, failures, prev>>

\* mutant: the copy taken before the duplicate check
CoFindLoan_TakeFirst(p) ==
    /\ pc[p] = "coFindLoan"
    /\ books' = UpdateOneInc(books, req[p].isbn, -1)
    /\ LET existingLoan == FindOneLoan(loans, req[p].patronId, req[p].isbn)
       IN  IF existingLoan # <<>>
           THEN Return(p, errResult("The patron already has this book checked out",
                                    "BAD_REQ"))
           ELSE Goto(p, "coInsertLoan")
    /\ UNCHANGED <<loans, req, found, pre, overlap, added, calls, failures, prev>>

\* await loansCollection.findOne({patronId, isbn}), then the duplicate check
CoFindLoan(p) ==
    /\ pc[p] = "coFindLoan"
    /\ LET existingLoan == FindOneLoan(loans, req[p].patronId, req[p].isbn)
       IN  IF existingLoan # <<>>
           THEN Return(p, errResult("The patron already has this book checked out",
                                    "BAD_REQ"))
           ELSE Goto(p, "coInsertLoan")
    /\ UNCHANGED <<books, loans, req, found, pre, overlap, added, calls, failures, prev>>

\* await loansCollection.insertOne({patronId, isbn, checkedOutAt})
CoInsertLoan(p) ==
    /\ pc[p] = "coInsertLoan"
    /\ loans' = InsertOne(loans, LoanDoc(req[p].patronId, req[p].isbn))
    /\ Goto(p, "coUpdateOne")
    /\ UNCHANGED <<books, req, found, pre, overlap, added, calls, failures, prev>>

\* await booksCollection.updateOne({isbn}, {$inc: {nCopies: -1}})
CoUpdateOne(p) ==
    /\ pc[p] = "coUpdateOne"
    /\ books' = UpdateOneInc(books, req[p].isbn, -1)
    /\ Return(p, okResult(<<>>))
    /\ UNCHANGED <<loans, req, found, pre, overlap, added, calls, failures, prev>>

(***************************** returnBook *********************************)

ReturnBook(p, r) == LendStart(p, "returnBook", r, "rbFindBook")

\* await booksCollection.findOne({isbn}), then the existence check
RbFindBook(p) ==
    /\ pc[p] = "rbFindBook"
    /\ LET book == FindOneBook(books, req[p].isbn)
       IN  /\ found' = [found EXCEPT ![p] = book]
           /\ IF book = <<>>
              THEN Return(p, errResult("The book does not exist in the library", "BAD_REQ"))
              ELSE Goto(p, "rbFindLoan")
    /\ UNCHANGED <<books, loans, req, pre, overlap, added, calls, failures, prev>>

\* await loansCollection.findOne({patronId, isbn}), then the loan check
RbFindLoan(p) ==
    /\ pc[p] = "rbFindLoan"
    /\ LET loan == FindOneLoan(loans, req[p].patronId, req[p].isbn)
       IN  IF loan = <<>>
           THEN Return(p, errResult("The patron does not have this book checked out",
                                    "BAD_REQ"))
           ELSE Goto(p, "rbDeleteOne")
    /\ UNCHANGED <<books, loans, req, found, pre, overlap, added, calls, failures, prev>>

\* await loansCollection.deleteOne({patronId, isbn})
RbDeleteOne(p) ==
    /\ pc[p] = "rbDeleteOne"
    /\ loans' = DeleteOneLoan(loans, req[p].patronId, req[p].isbn)
    /\ Goto(p, "rbUpdateOne")
    /\ UNCHANGED <<books, req, found, pre, overlap, added, calls, failures, prev>>

\* await booksCollection.updateOne({isbn}, {$inc: {nCopies: 1}})
RbUpdateOne(p) ==
    /\ pc[p] = "rbUpdateOne"
    /\ books' = UpdateOneInc(books, req[p].isbn, 1)
    /\ Return(p, okResult(<<>>))
    /\ UNCHANGED <<loans, req, found, pre, overlap, added, calls, failures, prev>>

(****************************** findBooks *********************************)

UPPER ==
    <<"A", "B", "C", "D", "E", "F", "G", "H", "I", "J", "K", "L", "M",
      "N", "O", "P", "Q", "R", "S", "T", "U", "V", "W", "X", "Y", "Z">>
LOWER ==
    <<"a", "b", "c", "d", "e", "f", "g", "h", "i", "j", "k", "l", "m",
      "n", "o", "p", "q", "r", "s", "t", "u", "v", "w", "x", "y", "z">>

\* \w
WordChars ==
    {UPPER[k] : k \in 1..26} \cup {LOWER[k] : k \in 1..26} \cup Digits \cup {"_"}

\* the characters of the model's strings in the order of their code units
Ascii ==
    <<" ", ",", "-", ".", "0", "1", "2", "3", "4", "5", "6", "7", "8", "9", "<">>
        \o UPPER \o <<"_">> \o LOWER
CharCode(ch) == CHOOSE k \in 1..Len(Ascii) : Ascii[k] = ch

\* case folding of the regular expression flag "i"
ToLower(ch) ==
    IF \E k \in 1..26 : UPPER[k] = ch
    THEN LOWER[CHOOSE k \in 1..26 : UPPER[k] = ch]
    ELSE ch
LowerCase(s) == [k \in 1..Len(s) |-> ToLower(s[k])]

\* the matches of /\w{2,}/g in s, run being the word characters read so far
RECURSIVE Match(_, _)
Match(s, run) ==
    LET word == IF Len(run) >= 2 THEN <<run>> ELSE <<>>
    IN  IF s = <<>> THEN word
        ELSE IF Head(s) \in WordChars THEN Match(Tail(s), Append(run, Head(s)))
        ELSE word \o Match(Tail(s), <<>>)

\* search.match(/\w{2,}/g); <<>> for null
SearchWords(search) == Match(search, <<>>)

\* new RegExp(word, "i") matches text
RegexTest(word, text) ==
    \E k \in 1..(Len(text) - Len(word) + 1) :
        LowerCase(SubSeq(text, k, k + Len(word) - 1)) = LowerCase(word)

\* {$or: [{title: {$regex}}, {authors: {$regex}}]}: an array field matches
\* when one of its elements does
WordMatches(word, d) ==
    \/ RegexTest(word, d.title)
    \/ \E k \in 1..Len(d.authors) : RegexTest(word, d.authors[k])

\* mutant: $or in place of $and
BookMatches_Any(searchWords, d) ==
    \E k \in 1..Len(searchWords) : WordMatches(searchWords[k], d)

\* {$and: searchConditions}
BookMatches(searchWords, d) ==
    \A k \in 1..Len(searchWords) : WordMatches(searchWords[k], d)

\* a < b or a = b as strings compared code unit by code unit
RECURSIVE StrLeq(_, _)
StrLeq(a, b) ==
    IF a = <<>> THEN TRUE
    ELSE IF b = <<>> THEN FALSE
    ELSE IF Head(a) # Head(b) THEN CharCode(Head(a)) < CharCode(Head(b))
    ELSE StrLeq(Tail(a), Tail(b))

\* find(query).sort({title: 1}): the orders in which the cursor may deliver
\* the matching documents; documents with equal titles come in any order
SortedByTitle(c, searchWords) ==
    LET hits == {k \in 1..Len(c) : BookMatches(searchWords, c[k])}
        n == Cardinality(hits)
    IN  { [j \in 1..n |-> c[f[j]]] :
            f \in { g \in [1..n -> hits] :
                      /\ \A i, j \in 1..n : i # j => g[i] # g[j]
                      /\ \A i, j \in 1..n :
                            i < j => StrLeq(c[g[i]].title, c[g[j]].title) } }

\* cursor.skip(index)
Skip(s, index) == SubSeq(s, index + 1, Len(s))

\* cursor.limit(count): a limit of 0 is no limit
Limit(s, count) == IF count = 0 THEN s ELSE SubSeq(s, 1, Min({count, Len(s)}))

\* z.string().regex(/\w{2,}/)
ValidSearch(x) == x.type = "string" /\ SearchWords(x.str) # <<>>

\* mutant: nonnegative() left out
ValidIndexCount_AnyNumber(x) == x.type \in {"undefined", "number"}

\* z.number().int().nonnegative().optional(), the numbers being integers
ValidIndexCount(x) == x.type = "undefined" \/ (x.type = "number" /\ x.num >= 0)

\* Find.safeParse(req).success
ValidFind(r) ==
    /\ ValidSearch(Field(r, "search"))
    /\ ValidIndexCount(Field(r, "index"))
    /\ ValidIndexCount(Field(r, "count"))

\* the error Find validation reports: that of the first field in error
FindError(r) ==
    IF Field(r, "search").type = "undefined"
    THEN errResult("Required", "MISSING")
    ELSE IF Field(r, "search").type # "string"
    THEN errResult("Expected string", "BAD_TYPE")
    ELSE IF ~ValidSearch(Field(r, "search"))
    THEN errResult("Search must contain at least one word", "BAD_REQ")
    ELSE IF \E f \in {"index", "count"} :
                Field(r, f).type \notin {"undefined", "number"}
    THEN errResult("Expected number", "BAD_TYPE")
    ELSE errResult("Index and count must be non-negative integers", "BAD_REQ")

\* const { search, index = 0, count = DEFAULT_COUNT } = validationResult.data
FindSearch(r) == Field(r, "search").str
FindIndex(r) == IF Field(r, "index").type = "undefined" THEN 0 ELSE r.index.num
FindCount(r) ==
    IF Field(r, "count").type = "undefined" THEN DEFAULT_COUNT ELSE r.count.num

\* findBooks up to its await: validation and the search words
FindBooks(p, r) ==
    /\ Begin(p, [op |-> "findBooks", find |-> r])
    /\ IF ~ValidFind(r)
       THEN Return(p, FindError(r))
       ELSE IF SearchWords(FindSearch(r)) = <<>>
       THEN Return(p, errResult("No valid words in search", "BAD_REQ"))
       ELSE Goto(p, "fbToArray")
    /\ UNCHANGED <<books, loans, found, added, failures>>

\* await find(...).sort(...).skip(index).limit(count).toArray()
FbToArray(p) ==
    /\ pc[p] = "fbToArray"
    /\ \E sorted \in SortedByTitle(books, SearchWords(FindSearch(req[p].find))) :
          Return(p, okResult(<<Limit(Skip(sorted, FindIndex(req[p].find)),
                                     FindCount(req[p].find))>>))
    /\ UNCHANGED <<books, loans, req, found, pre, overlap, added, calls, failures, prev>>

(************************** storage failures ******************************)

\* the positions at which a call awaits the storage layer
StoragePcs ==
    {"addFindOne", "addUpdateOne", "addInsertOne",
     "coFindBook", "coFindLoan", "coInsertLoan", "coUpdateOne",
     "rbFindBook", "rbFindLoan", "rbDeleteOne", "rbUpdateOne",
     "fbToArray"}

\* the result each operation's catch block returns
CatchResult(op) ==
    IF op = "addBook" THEN errResult("Failed to add the book to the library", "DB")
    ELSE IF op = "checkoutBook" THEN errResult("Failed to check out the book", "DB")
    ELSE IF op = "findBooks" THEN errResult("Failed to retrieve books", "DB")
    ELSE errResult("TODO", "UNKNOWN")

\* the awaited storage call rejects: it has no effect, and the catch block runs
StorageFail(p) ==
    /\ pc[p] \in StoragePcs
    /\ failures < MaxFailures
    /\ failures' = failures + 1
    /\ Return(p, CatchResult(req[p].op))
    /\ UNCHANGED <<books, loans, req, found, pre, overlap, added, calls, prev>>

\* the call p's caller has just been given the result of, when it is a
\* successful checkoutBook
LastCheckout(p) ==
    IF req[p].op = "checkoutBook" /\ result[p].isOk
    THEN <<[op |-> "checkoutBook", patronId |-> req[p].patronId,
            isbn |-> req[p].isbn,
            books |-> pre[p].books, loans |-> pre[p].loans]>>
    ELSE <<>>

\* the same, a successful addBook being noted as well
LastCall(p) ==
    IF req[p].op = "addBook" /\ result[p].isOk
    THEN <<[op |-> "addBook", book |-> req[p].book]>>
    ELSE LastCheckout(p)

\* the caller takes the result; the process is free for another call
FinishWith(p, last) ==
    /\ pc[p] = "done"
    /\ pc' = [pc EXCEPT ![p] = "idle"]
    /\ req' = [req EXCEPT ![p] = NoReq]
    /\ found' = [found EXCEPT ![p] = <<>>]
    /\ result' = [result EXCEPT ![p] = NoResult]
    /\ pre' = [pre EXCEPT ![p] = NoPre]
    /\ overlap' = [overlap EXCEPT ![p] = {}]
    /\ prev' = [prev EXCEPT ![p] = last]
    /\ UNCHANGED <<books, loans, added, calls, failures>>

Finish(p) == FinishWith(p, LastCheckout(p))

\* the caller takes the result, in the specification of searches
CatFinish(p) == FinishWith(p, LastCall(p))

(*************************** specifications *******************************)

Init ==
    /\ books = <<>>
    /\ loans = <<>>
    /\ pc = [p \in Procs |-> "idle"]
    /\ req = [p \in Procs |-> NoReq]
    /\ found = [p \in Procs |-> <<>>]
    /\ result = [p \in Procs |-> NoResult]
    /\ pre = [p \in Procs |-> NoPre]
    /\ overlap = [p \in Procs |-> {}]
    /\ added = [i \in Isbns |-> 0]
    /\ calls = 0
    /\ failures = 0
    /\ prev = [p \in Procs |-> <<>>]

\* a call in progress completes one storage call
Step(p) ==
    \/ AddFindOne(p) \/ AddUpdateOne(p) \/ AddInsertOne(p)
    \/ CoFindBook(p) \/ CoFindLoan(p) \/ CoInsertLoan(p) \/ CoUpdateOne(p)
    \/ RbFindBook(p) \/ RbFindLoan(p) \/ RbDeleteOne(p) \/ RbUpdateOne(p)
    \/ FbToArray(p)

\* a caller starts a call while other calls may be in progress
ConcStart ==
    /\ calls < MaxCalls
    /\ calls' = calls + 1

ConcAddBook(p, b) == ConcStart /\ AddBook(p, b)
ConcCheckoutBook(p, r) == ConcStart /\ CheckoutBook(p, r)
ConcReturnBook(p, r) == ConcStart /\ ReturnBook(p, r)
ConcFindBooks(p, r) == ConcStart /\ FindBooks(p, r)

ConcCall(p) ==
    \/ \E b \in ConcBookReqs : ConcAddBook(p, b)
    \/ \E r \in ConcLendReqs : ConcCheckoutBook(p, r)
    \/ \E r \in ConcLendReqs : ConcReturnBook(p, r)
    \/ \E r \in ConcFindReqs : ConcFindBooks(p, r)

\* a caller starts a call when no call is in progress
AllIdle == \A q \in Procs : pc[q] = "idle"

SeqStart ==
    /\ AllIdle
    /\ UNCHANGED calls

SeqAddBook(p, b) == SeqStart /\ AddBook(p, b)
SeqCheckoutBook(p, r) == SeqStart /\ CheckoutBook(p, r)
SeqReturnBook(p, r) == SeqStart /\ ReturnBook(p, r)
SeqFindBooks(p, r) == SeqStart /\ FindBooks(p, r)

SeqCall(p) ==
    \/ \E b \in BookReqs : SeqAddBook(p, b)
    \/ \E r \in LendReqs : SeqCheckoutBook(p, r)
    \/ \E r \in LendReqs : SeqReturnBook(p, r)
    \/ \E r \in FindReqs : SeqFindBooks(p, r)

\* concurrent callers, storage calls may fail
Next == \E p \in Procs : ConcCall(p) \/ Step(p) \/ StorageFail(p) \/ Finish(p)
Spec == Init /\ [][Next]_vars

\* calls that do not overlap are the calls of one caller, each awaited
\* before the next is made
SeqCaller == CHOOSE p \in Procs : TRUE

\* calls that do not overlap, storage calls may fail
SeqFailNext ==
    \E p \in {SeqCaller} : SeqCall(p) \/ Step(p) \/ StorageFail(p) \/ Finish(p)
SeqFailSpec == Init /\ [][SeqFailNext]_vars

\* calls that do not overlap, no storage call fails
SeqNext == \E p \in {SeqCaller} : SeqCall(p) \/ Step(p) \/ Finish(p)
SeqSpec == Init /\ [][SeqNext]_vars

\* the calls of the specification of request checking
ReqAddBook(p, b) == SeqStart /\ AddBook(p, b)
ReqCheckoutBook(p, r) == SeqStart /\ CheckoutBook(p, r)
ReqReturnBook(p, r) == SeqStart /\ ReturnBook(p, r)
ReqFindBooks(p, r) == SeqStart /\ FindBooks(p, r)

ReqCall(p) ==
    \/ \E b \in ReqBookReqs : ReqAddBook(p, b)
    \/ \E r \in ReqLendReqs : ReqCheckoutBook(p, r)
    \/ \E r \in ReqLendReqs : ReqReturnBook(p, r)
    \/ \E r \in ReqFindReqs : ReqFindBooks(p, r)

\* calls that do not overlap, with requests of every kind; storage calls
\* may fail
ReqNext ==
    \E p \in {SeqCaller} : ReqCall(p) \/ Step(p) \/ StorageFail(p) \/ Finish(p)
ReqSpec == Init /\ [][ReqNext]_vars

\* the calls of the specification of searches
CatAddBook(p, b) == SeqStart /\ AddBook(p, b)
CatCheckoutBook(p, r) == SeqStart /\ CheckoutBook(p, r)
CatReturnBook(p, r) == SeqStart /\ ReturnBook(p, r)
CatFindBooks(p, r) == SeqStart /\ FindBooks(p, r)

CatCall(p) ==
    \/ \E b \in CatBookReqs : CatAddBook(p, b)
    \/ \E r \in CatLendReqs : CatCheckoutBook(p, r)
    \/ \E r \in CatLendReqs : CatReturnBook(p, r)
    \/ \E r \in CatFindReqs : CatFindBooks(p, r)

\* calls that do not overlap on a catalog of up to three books, no storage
\* call fails
FindNext == \E p \in {SeqCaller} : CatCall(p) \/ Step(p) \/ CatFinish(p)
FindSpec == Init /\ [][FindNext]_vars

(******************************* claims ***********************************)

\* caller p's call of operation op has returned
Done(p, op) == pc[p] = "done" /\ req[p].op = op

NoCallInProgress == \A p \in Procs : ~Active(p)

\* number of documents of collection c for the key
NBooks(c, i) == Cardinality(BookIdx(c, i))
NLoans(c, pid, i) == Cardinality(LoanIdx(c, pid, i))
NLoansOf(c, i) == Cardinality({k \in 1..Len(c) : c[k].isbn = i})

\* the nCopies of the book document for isbn i in collection c
Copies(c, i) == FindOneBook(c, i)[1].nCopies

\* the calls of p and q overlapped in time
Overlapped(p, q) == p # q /\ q \in overlap[p] /\ p \in overlap[q]

\* a checkoutBook or returnBook call that got past the checks on its fields
LendDone(p, op) ==
    /\ Done(p, op)
    /\ ~MissingOrInvalid(Field(req[p].raw, "patronId"))
    /\ ~MissingOrInvalid(Field(req[p].raw, "isbn"))

\* an addBook call with a valid request for an isbn the catalog already had
ReAddDone(p) ==
    /\ Done(p, "addBook")
    /\ ValidBook(req[p].book)
    /\ FindOneBook(pre[p].books, req[p].book.isbn) # <<>>

StoredBefore(p) == FindOneBook(pre[p].books, req[p].book.isbn)[1]

\* C1: with calls that do not overlap, at most one Loan record exists for
\* every (isbn, patronId) pair.
C1_OneLoanPerPair ==
    \A pid \in Patrons, i \in Isbns : NLoans(loans, pid, i) <= 1

\* C1 witness: a second checkout of a pair on loan has been rejected, and
\* the pair still has its one Loan record.
C1_Witness ==
    \E p \in Procs :
        /\ LendDone(p, "checkoutBook")
        /\ result[p].message = "The patron already has this book checked out"
        /\ NLoans(loans, req[p].patronId, req[p].isbn) = 1

\* C2 (as claimed): nCopies never becomes negative, and of two overlapping
\* checkoutBook calls for the same isbn by different patrons, both started
\* while the book's nCopies was 1, at most one returns success.
C2_LastCopyOnce ==
    /\ \A k \in 1..Len(books) : books[k].nCopies >= 0
    /\ \A p, q \in Procs :
        ( /\ Overlapped(p, q)
          /\ LendDone(p, "checkoutBook") /\ LendDone(q, "checkoutBook")
          /\ req[p].isbn = req[q].isbn /\ req[p].patronId # req[q].patronId
          /\ NBooks(pre[p].books, req[p].isbn) = 1
          /\ NBooks(pre[q].books, req[q].isbn) = 1
          /\ Copies(pre[p].books, req[p].isbn) = 1
          /\ Copies(pre[q].books, req[q].isbn) = 1 )
        => ~(result[p].isOk /\ result[q].isOk)

\* C3 (as claimed): of two overlapping returnBook calls for the same
\* (isbn, patronId), both started with exactly one open loan of the pair,
\* at most one returns success and nCopies grows by at most 1 in total.
C3_ReturnOnce ==
    \A p, q \in Procs :
        ( /\ Overlapped(p, q)
          /\ LendDone(p, "returnBook") /\ LendDone(q, "returnBook")
          /\ req[p].isbn = req[q].isbn /\ req[p].patronId = req[q].patronId
          /\ NBooks(pre[p].books, req[p].isbn) = 1
          /\ NBooks(pre[q].books, req[q].isbn) = 1
          /\ NLoans(pre[p].loans, req[p].patronId, req[p].isbn) = 1
          /\ NLoans(pre[q].loans, req[q].patronId, req[q].isbn) = 1
          /\ Copies(pre[p].books, req[p].isbn) = Copies(pre[q].books, req[q].isbn) )
        => /\ ~(result[p].isOk /\ result[q].isOk)
           /\ Copies(books, req[p].isbn) <= Copies(pre[p].books, req[p].isbn) + 1

\* C4 (as claimed): of two overlapping checkoutBook calls for the same
\* (isbn, patronId), both started while the book's nCopies was at least 2,
\* at most one returns success and at most one Loan record of the pair
\* exists afterwards.
C4_CheckoutOnce ==
    \A p, q \in Procs :
        ( /\ Overlapped(p, q)
          /\ LendDone(p, "checkoutBook") /\ LendDone(q, "checkoutBook")
          /\ req[p].isbn = req[q].isbn /\ req[p].patronId = req[q].patronId
          /\ NBooks(pre[p].books, req[p].isbn) = 1
          /\ NBooks(pre[q].books, req[q].isbn) = 1
          /\ Copies(pre[p].books, req[p].isbn) >= 2
          /\ Copies(pre[q].books, req[q].isbn) >= 2 )
        => /\ ~(result[p].isOk /\ result[q].isOk)
           /\ NLoans(loans, req[p].patronId, req[p].isbn) <= 1

\* C5: with calls that do not overlap and no storage failure, whenever no
\* call is in progress the stored nCopies of every isbn is the number of
\* copies the successful addBook calls added minus the number of its open
\* loans (and an isbn without a Book record has had no copies added).
C5_CopiesBalance ==
    NoCallInProgress =>
        \A i \in Isbns :
            /\ NBooks(books, i) <= 1
            /\ IF NBooks(books, i) = 0
               THEN added[i] = 0 /\ NLoansOf(loans, i) = 0
               ELSE Copies(books, i) = added[i] - NLoansOf(loans, i)

\* C5 witness: two copies were added, one is on loan, one is left.
C5_Witness ==
    /\ NoCallInProgress
    /\ \E i \in Isbns :
        /\ NBooks(books, i) = 1
        /\ added[i] = 2
        /\ NLoansOf(loans, i) = 1
        /\ Copies(books, i) = 1

\* C6: with calls that do not overlap, every stored Book has nCopies >= 0;
\* a checkoutBook on a book whose nCopies is 0 fails, with BAD_REQ (no
\* copies available) unless the lookup of the book itself failed, and
\* leaves the books collection as it was.
C6_NeverNegative ==
    /\ \A k \in 1..Len(books) : books[k].nCopies >= 0
    /\ \A p \in Procs :
        ( /\ LendDone(p, "checkoutBook")
          /\ NBooks(pre[p].books, req[p].isbn) = 1
          /\ Copies(pre[p].books, req[p].isbn) = 0 )
        => /\ ~result[p].isOk
           /\ books = pre[p].books
           /\ Copies(books, req[p].isbn) = 0
           /\ result[p].code # "DB" =>
                /\ result[p].code = "BAD_REQ"
                /\ result[p].message = "No copies of the book are available for checkout"

\* C6 witness: a checkout of a book with no copies left has been rejected
\* with BAD_REQ, for a patron who holds no loan on it.
C6_Witness ==
    \E p \in Procs :
        /\ LendDone(p, "checkoutBook")
        /\ NBooks(pre[p].books, req[p].isbn) = 1
        /\ Copies(pre[p].books, req[p].isbn) = 0
        /\ NLoans(loans, req[p].patronId, req[p].isbn) = 0
        /\ result[p].code = "BAD_REQ"

\* C7 (as claimed): a checkoutBook or returnBook call that returns an error
\* leaves the Loans collection and the books collection as they were before
\* the call.
C7_AllOrNothing ==
    \A p \in Procs :
        ( /\ LendDone(p, "checkoutBook") \/ LendDone(p, "returnBook")
          /\ ~result[p].isOk )
        => /\ loans = pre[p].loans
           /\ books = pre[p].books

\* C8: an addBook for an isbn already in the catalog whose title, authors,
\* year and publisher equal the stored ones succeeds, adds exactly the
\* requested count (1 when nCopies is absent) to the stored nCopies,
\* creates no second record and changes nothing else.
C8_ReAddIncrements ==
    \A p \in Procs :
        ( /\ ReAddDone(p)
          /\ StoredBefore(p).title = req[p].book.title
          /\ StoredBefore(p).authors = req[p].book.authors
          /\ StoredBefore(p).year = req[p].book.year
          /\ StoredBefore(p).publisher = req[p].book.publisher )
        => /\ result[p].isOk
           /\ Len(books) = Len(pre[p].books)
           /\ NBooks(books, req[p].book.isbn) = 1
           /\ Copies(books, req[p].book.isbn)
                = StoredBefore(p).nCopies + Requested(req[p].book)
           /\ books = UpdateOneInc(pre[p].books, req[p].book.isbn, Requested(req[p].book))

\* C8 witness: the second of two addBook calls with nCopies = 1 has
\* returned and the single record has nCopies = 2.
C8_Witness ==
    \E p \in Procs :
        /\ ReAddDone(p)
        /\ result[p].isOk
        /\ "nCopies" \in DOMAIN req[p].book /\ req[p].book.nCopies = 1
        /\ StoredBefore(p).nCopies = 1
        /\ NBooks(books, req[p].book.isbn) = 1
        /\ Copies(books, req[p].book.isbn) = 2

\* C9 (as claimed): an addBook for an isbn already in the catalog whose
\* request differs from the stored record in title, in authors (as an
\* ordered sequence, element by element), in year or in publisher fails
\* with BAD_REQ and leaves the books collection unchanged.
C9_InconsistentRejected ==
    \A p \in Procs :
        ( /\ ReAddDone(p)
          /\ \/ StoredBefore(p).title # req[p].book.title
             \/ StoredBefore(p).authors # req[p].book.authors
             \/ StoredBefore(p).year # req[p].book.year
             \/ StoredBefore(p).publisher # req[p].book.publisher )
        => /\ ~result[p].isOk
           /\ result[p].code = "BAD_REQ"
           /\ books = pre[p].books

\* C10 (as claimed): an addBook for an isbn already in the catalog whose
\* request differs from the stored record only in pages is rejected with
\* BAD_REQ, and the stored pages value does not change.
C10_PagesConsistent ==
    \A p \in Procs :
        ( /\ ReAddDone(p)
          /\ StoredBefore(p).pages # req[p].book.pages
          /\ StoredBefore(p).title = req[p].book.title
          /\ StoredBefore(p).authors = req[p].book.authors
          /\ StoredBefore(p).year = req[p].book.year
          /\ StoredBefore(p).publisher = req[p].book.publisher )
        => /\ ~result[p].isOk
           /\ result[p].code = "BAD_REQ"
           /\ FindOneBook(books, req[p].book.isbn)[1].pages = StoredBefore(p).pages

\* C12 (as claimed): at most one Book record exists per isbn, also when
\* addBook calls for the same isbn interleave.
C12_OneBookPerIsbn ==
    \A i \in Isbns : NBooks(books, i) <= 1

\* the book document stored for the isbn of p's addBook request
StoredNow(p) == FindOneBook(books, req[p].book.isbn)

\* C13 (as claimed): the record a successful addBook returns equals the
\* Book record stored for that isbn after the call.
C13_ReturnsStored ==
    \A p \in Procs :
        (Done(p, "addBook") /\ result[p].isOk) => result[p].val = StoredNow(p)

\* the preconditions of p's checkoutBook call, in the store the call found
CoBookExists(p) == NBooks(pre[p].books, req[p].isbn) >= 1
CoHasCopies(p) == FindOneBook(pre[p].books, req[p].isbn)[1].nCopies > 0
CoNoLoan(p) == NLoans(pre[p].loans, req[p].patronId, req[p].isbn) = 0

\* C14: with calls that do not overlap, checkoutBook reports the first unmet
\* of (1) book exists, (2) nCopies > 0, (3) no open loan of the pair, each
\* with its own BAD_REQ message, and returns success exactly when all three
\* hold and no storage call failed (a failed storage call gives code DB).
C14_CheckoutOrder ==
    \A p \in Procs :
        LendDone(p, "checkoutBook") =>
            /\ result[p].isOk <=>
                 /\ result[p].code # "DB"
                 /\ CoBookExists(p) /\ CoHasCopies(p) /\ CoNoLoan(p)
            /\ (result[p].code # "DB" /\ ~CoBookExists(p)) =>
                 /\ result[p].code = "BAD_REQ"
                 /\ result[p].message = "The book does not exist in the library"
            /\ (result[p].code # "DB" /\ CoBookExists(p) /\ ~CoHasCopies(p)) =>
                 /\ result[p].code = "BAD_REQ"
                 /\ result[p].message = "No copies of the book are available for checkout"
            /\ (result[p].code # "DB" /\ CoBookExists(p) /\ CoHasCopies(p) /\ ~CoNoLoan(p)) =>
                 /\ result[p].code = "BAD_REQ"
                 /\ result[p].message = "The patron already has this book checked out"

\* C14 witness: preconditions (2) and (3) are both unmet and the call
\* reported (2), the first of them.
C14_Witness ==
    \E p \in Procs :
        /\ LendDone(p, "checkoutBook")
        /\ CoBookExists(p) /\ ~CoHasCopies(p) /\ ~CoNoLoan(p)
        /\ result[p].message = "No copies of the book are available for checkout"

\* C15: a successful checkoutBook(isbn, patronId) appends exactly one Loan
\* record, of (isbn, patronId), takes exactly 1 from that book's nCopies and
\* leaves every other field, Book record and Loan record unchanged.
C15_CheckoutFrame ==
    \A p \in Procs :
        (LendDone(p, "checkoutBook") /\ result[p].isOk) =>
            /\ loans = Append(pre[p].loans,
                              [patronId |-> req[p].patronId, isbn |-> req[p].isbn])
            /\ Len(books) = Len(pre[p].books)
            /\ NBooks(pre[p].books, req[p].isbn) = 1
            /\ \A k \in 1..Len(books) :
                 books[k] = IF pre[p].books[k].isbn = req[p].isbn
                            THEN [pre[p].books[k] EXCEPT !.nCopies = @ - 1]
                            ELSE pre[p].books[k]

\* C15 witness: a checkout has succeeded in a store that holds another Book
\* record and another Loan record.
C15_Witness ==
    \E p \in Procs :
        /\ LendDone(p, "checkoutBook") /\ result[p].isOk
        /\ Len(pre[p].books) = 2
        /\ Len(pre[p].loans) >= 1
        /\ NLoans(loans, req[p].patronId, req[p].isbn) = 1

\* a checkoutBook call by a patron who already holds a loan of the book
\* (with no storage failure: who has checked it out and not returned it)
SecondCheckout(p) ==
    /\ LendDone(p, "checkoutBook")
    /\ CoBookExists(p)
    /\ ~CoNoLoan(p)

\* C16 (as claimed): the second checkoutBook by the same patron fails with
\* BAD_REQ "already checked out" and leaves the store unchanged, whatever
\* the nCopies (>= 1) before the first checkout.
C16_AlreadyCheckedOut ==
    \A p \in Procs :
        SecondCheckout(p) =>
            /\ ~result[p].isOk
            /\ result[p].code = "BAD_REQ"
            /\ result[p].message = "The patron already has this book checked out"
            /\ books = pre[p].books /\ loans = pre[p].loans

\* C16 (amended): the second checkoutBook by the same patron fails with
\* BAD_REQ and leaves the store unchanged; the cause is "already checked
\* out" when a copy is left after the first checkout, and "no copies
\* available" when the first checkout took the last copy.
C16_SecondCheckoutFails ==
    \A p \in Procs :
        SecondCheckout(p) =>
            /\ ~result[p].isOk
            /\ result[p].code = "BAD_REQ"
            /\ result[p].message =
                 IF CoHasCopies(p)
                 THEN "The patron already has this book checked out"
                 ELSE "No copies of the book are available for checkout"
            /\ books = pre[p].books /\ loans = pre[p].loans

\* C16 witness: a second checkout was rejected as already checked out
\* while a copy was left.
C16_Witness ==
    \E p \in Procs :
        /\ SecondCheckout(p)
        /\ CoHasCopies(p)
        /\ result[p].message = "The patron already has this book checked out"

\* C18: with calls that do not overlap, returnBook fails when no Book with
\* the isbn exists and when the book exists but the pair has no open Loan,
\* also when other patrons hold loans of the isbn; the code is BAD_REQ
\* (unless the lookup itself failed) and the store is unchanged.
C18_ReturnRejected ==
    \A p \in Procs :
        ( /\ LendDone(p, "returnBook")
          /\ \/ NBooks(pre[p].books, req[p].isbn) = 0
             \/ NLoans(pre[p].loans, req[p].patronId, req[p].isbn) = 0 )
        => /\ ~result[p].isOk
           /\ books = pre[p].books /\ loans = pre[p].loans
           /\ result[p] # CatchResult("returnBook") =>
                /\ result[p].code = "BAD_REQ"
                /\ result[p].message =
                     IF NBooks(pre[p].books, req[p].isbn) = 0
                     THEN "The book does not exist in the library"
                     ELSE "The patron does not have this book checked out"

\* C18 witness: a return was rejected as not checked out while another
\* patron held a loan of the same isbn.
C18_Witness ==
    \E p \in Procs :
        /\ LendDone(p, "returnBook")
        /\ result[p].message = "The patron does not have this book checked out"
        /\ NLoansOf(pre[p].loans, req[p].isbn) >= 1
        /\ NLoansOf(loans, req[p].isbn) >= 1

\* C20 (as claimed): when a storage call fails inside an operation, the
\* operation returns, without another attempt, an error result of code DB.
C20_FailureIsDB ==
    [][\A p \in Procs :
         (pc[p] \in StoragePcs /\ failures' = failures + 1 /\ pc'[p] # pc[p]) =>
             /\ pc'[p] = "done"
             /\ ~result'[p].isOk
             /\ result'[p].code = "DB"]_vars

\* C17: with calls that do not overlap and no storage failure, a returnBook
\* that immediately follows a successful checkoutBook of the same pair
\* succeeds and leaves the store (books and loans) as it was before the
\* checkout.
C17_RoundTrip ==
    \A p \in Procs :
        (LendDone(p, "returnBook") /\ prev[p] # <<>>) =>
            /\ result[p].isOk
            /\ books = prev[p][1].books
            /\ loans = prev[p][1].loans

\* C17 witness: such a return has completed in a store that holds another
\* patron's loan of the same isbn.
C17_Witness ==
    \E p \in Procs :
        /\ LendDone(p, "returnBook") /\ prev[p] # <<>>
        /\ result[p].isOk
        /\ NLoansOf(prev[p][1].loans, req[p].isbn) >= 1

\* the pair (pid, i) is OnLoan in the loans collection c
OnLoan(c, pid, i) == NLoans(c, pid, i) >= 1

\* C19 (as claimed): a call moves a pair NoLoan -> OnLoan only if it is a
\* successful checkoutBook of that pair and OnLoan -> NoLoan only if it is
\* a successful returnBook of that pair; checkoutBook fails in OnLoan and
\* returnBook fails in NoLoan.
C19_LoanStateMachine ==
    \A p \in Procs :
        pc[p] = "done" =>
            \A pid \in Patrons, i \in Isbns :
                /\ (~OnLoan(pre[p].loans, pid, i) /\ OnLoan(loans, pid, i)) =>
                     /\ req[p].op = "checkoutBook"
                     /\ req[p].patronId = pid /\ req[p].isbn = i
                     /\ result[p].isOk
                /\ (OnLoan(pre[p].loans, pid, i) /\ ~OnLoan(loans, pid, i)) =>
                     /\ req[p].op = "returnBook"
                     /\ req[p].patronId = pid /\ req[p].isbn = i
                     /\ result[p].isOk
                /\ ( /\ req[p].op = "checkoutBook"
                     /\ req[p].patronId = pid /\ req[p].isbn = i
                     /\ OnLoan(pre[p].loans, pid, i) ) => ~result[p].isOk
                /\ ( /\ req[p].op = "returnBook"
                     /\ req[p].patronId = pid /\ req[p].isbn = i
                     /\ ~OnLoan(pre[p].loans, pid, i) ) => ~result[p].isOk

\* the descriptive fields of a Book record
Descriptive(d) ==
    [title |-> d.title, authors |-> d.authors, year |-> d.year,
     publisher |-> d.publisher]

\* C11: with calls that do not overlap, no step of addBook, findBooks,
\* checkoutBook or returnBook changes the isbn, title, authors, year or
\* publisher of a stored Book record, and a Book record that appears in the
\* store is created by an addBook call that succeeds and carries the title,
\* authors, year and publisher of that call's request: the stored values are
\* those of the first successful addBook for the isbn.
C11_DescriptiveImmutable ==
    [][ /\ Len(books') >= Len(books)
        /\ \A k \in 1..Len(books) :
              /\ books'[k].isbn = books[k].isbn
              /\ Descriptive(books'[k]) = Descriptive(books[k])
        /\ \A k \in (Len(books) + 1)..Len(books') :
              \E p \in Procs :
                  /\ req[p].op = "addBook"
                  /\ pc'[p] = "done" /\ result'[p].isOk
                  /\ FindOneBook(books, req[p].book.isbn) = <<>>
                  /\ books'[k].isbn = req[p].book.isbn
                  /\ Descriptive(books'[k]) = Descriptive(req[p].book) ]_vars

\* C11 witness: a second addBook whose authors differ from the stored ones
\* (one author "A,B" against the authors "A" and "B") has succeeded, after a
\* checkout of the book, and the stored record still has the title, authors,
\* year and publisher of the first addBook.
C11_Witness ==
    \E p \in Procs :
        /\ ReAddDone(p)
        /\ result[p].isOk
        /\ req[p].book.authors # StoredBefore(p).authors
        /\ NLoansOf(loans, req[p].book.isbn) >= 1
        /\ Copies(books, req[p].book.isbn) = StoredBefore(p).nCopies + 1
        /\ Descriptive(StoredNow(p)[1]) = Descriptive(BOOK_1)

\* a call of checkoutBook or returnBook, started and not yet taken by its caller
LendCall(p) == pc[p] # "idle" /\ req[p].op \in {"checkoutBook", "returnBook"}

\* the error kind the Lend constraints give field f holding x; "OK" for none
LendFieldKind(f, x) ==
    IF x.type = "undefined" THEN "MISSING"
    ELSE IF x.type # "string" THEN "BAD_TYPE"
    ELSE IF f = "patronId" /\ Len(x.str) < 1 THEN "BAD_REQ"
    ELSE IF f = "isbn" /\ ~IsbnRegex(x.str) THEN "BAD_REQ"
    ELSE "OK"

\* the error kinds of the fields of request r
LendKinds(r) ==
    {LendFieldKind(f, Field(r, f)) : f \in {"patronId", "isbn"}} \ {"OK"}

\* C21 (as claimed): a checkoutBook or returnBook call whose isbn or patronId
\* is absent, not a string, or a string that fails its constraint has
\* returned, without reaching a storage call, an error whose code is MISSING,
\* BAD_TYPE or BAD_REQ according to the kind of the field in error.
C21_LendErrorKinds ==
    \A p \in Procs :
        (LendCall(p) /\ LendKinds(req[p].raw) # {}) =>
            /\ pc[p] = "done"
            /\ ~result[p].isOk
            /\ result[p].code \in LendKinds(req[p].raw)

\* a findBooks call that has returned a list of books
FindDone(p) == Done(p, "findBooks") /\ result[p].isOk

\* the books a findBooks call has returned
Found(p) == result[p].val[1]

\* the same character, or the two cases of one letter
SameLetter(a, b) == a = b \/ \E k \in 1..26 : {a, b} = {UPPER[k], LOWER[k]}

\* the maximal runs of two or more word characters of s
MaximalWords(s) ==
    { SubSeq(s, i, j) : <<i, j>> \in
        { ij \in (1..Len(s)) \X (1..Len(s)) :
            /\ ij[2] > ij[1]
            /\ \A k \in ij[1]..ij[2] : s[k] \in WordChars
            /\ ij[1] > 1 => s[ij[1] - 1] \notin WordChars
            /\ ij[2] < Len(s) => s[ij[2] + 1] \notin WordChars } }

\* w occurs in text, the case of letters ignored
OccursIn(w, text) ==
    \E i \in 0..(Len(text) - Len(w)) :
        \A k \in 1..Len(w) : SameLetter(text[i + k], w[k])

\* every word of the search occurs in the title or in an author of d
EveryWordOccurs(search, d) ==
    \A w \in MaximalWords(search) :
        \/ OccursIn(w, d.title)
        \/ \E k \in 1..Len(d.authors) : OccursIn(w, d.authors[k])

\* C22: every book a findBooks call returns has every word of the search
\* (each maximal run of two or more word characters) in its title or in one
\* of its authors, the case of letters ignored; and when the page asked for
\* covers the whole catalog, every book of the catalog that has every word
\* is returned.
C22_FindMatches ==
    \A p \in Procs :
        FindDone(p) =>
            LET search == FindSearch(req[p].find)
            IN  /\ \A k \in 1..Len(Found(p)) : EveryWordOccurs(search, Found(p)[k])
                /\ ( /\ FindIndex(req[p].find) = 0
                     /\ FindCount(req[p].find) >= Len(books) ) =>
                        \A k \in 1..Len(books) :
                            EveryWordOccurs(search, books[k]) =>
                                \E j \in 1..Len(Found(p)) : Found(p)[j] = books[k]

\* C22 witness: a search for "Js gO" in a catalog of three books that all
\* have "js" has returned the two that also have "go", one of them in an
\* author only.
C22_Witness ==
    \E p \in Procs :
        /\ FindDone(p)
        /\ FindSearch(req[p].find) = <<"J", "s", " ", "g", "O">>
        /\ Len(books) = 3
        /\ \A k \in 1..3 : EveryWordOccurs(<<"j", "s">>, books[k])
        /\ {Found(p)[k].isbn : k \in 1..Len(Found(p))} = {ISBN_1, ISBN_2}

\* the books of the store that have every word of the search
Matching(search) == {k \in 1..Len(books) : EveryWordOccurs(search, books[k])}

\* the place of book k among the matching books in ascending order of title
Rank(search, k) ==
    1 + Cardinality({j \in Matching(search) :
                        books[j].title # books[k].title
                        /\ StrLeq(books[j].title, books[k].title)})

\* C23 (as claimed): a findBooks call with a valid request returns, without
\* error, exactly the matching books at positions [index, index + count) in
\* ascending order of title: never more than count books, and the empty
\* sequence when nothing matches or index is past the last match.
C23_Page ==
    \A p \in Procs :
        (Done(p, "findBooks") /\ ValidFind(req[p].find)) =>
            LET search == FindSearch(req[p].find)
                index == FindIndex(req[p].find)
                count == FindCount(req[p].find)
                n == Cardinality(Matching(search))
                last == IF index + count < n THEN index + count ELSE n
            IN  /\ result[p].isOk
                /\ Len(Found(p)) <= count
                /\ Len(Found(p)) = (IF last > index THEN last - index ELSE 0)
                /\ \A j \in 1..Len(Found(p)) :
                      \E k \in Matching(search) :
                          /\ Found(p)[j] = books[k]
                          /\ Rank(search, k) = index + j

\* C24 (as claimed): a findBooks call that immediately follows a successful
\* addBook(b), with search set to b's title, succeeds and returns exactly one
\* record for b's isbn, and that record has the value of b in every field
\* of b.
C24_AddThenFind ==
    \A p \in Procs :
        ( /\ Done(p, "findBooks")
          /\ prev[p] # <<>>
          /\ prev[p][1].op = "addBook"
          /\ req[p].find = [search |-> JsString(prev[p][1].book.title)] ) =>
            /\ result[p].isOk
            /\ LET b == prev[p][1].book
                   hits == {k \in 1..Len(Found(p)) : Found(p)[k].isbn = b.isbn}
               IN  /\ Cardinality(hits) = 1
                   /\ \A k \in hits : \A f \in DOMAIN b : Found(p)[k][f] = b[f]

\* a findBooks call, started and not yet taken by its caller
FindCall(p) == pc[p] # "idle" /\ req[p].op = "findBooks"

\* index or count is given and is negative or not a number
BadIndexCount(x) ==
    x.type # "undefined" /\ (x.type # "number" \/ x.num < 0)

\* the requests the claim rejects: search absent or without a run of two or
\* more word characters, index or count negative or not a number
RejectedFind(r) ==
    \/ Field(r, "search").type = "undefined"
    \/ Field(r, "search").type = "string" /\ MaximalWords(r.search.str) = {}
    \/ BadIndexCount(Field(r, "index"))
    \/ BadIndexCount(Field(r, "count"))

\* the requests the claim accepts: a search with such a word, index and
\* count absent
AcceptedFind(r) ==
    /\ Field(r, "search").type = "string" /\ MaximalWords(r.search.str) # {}
    /\ Field(r, "index").type = "undefined"
    /\ Field(r, "count").type = "undefined"

\* C25: findBooks and the Find validation return an error for every request
\* whose search is absent or has no run of two or more word characters, or
\* whose index or count is negative or not a number, before any storage
\* call; a request with such a word and no index or count passes the
\* validation, and its call fails only if the storage call does.
C25_FindValidation ==
    \A p \in Procs :
        FindCall(p) =>
            /\ RejectedFind(req[p].find) =>
                  /\ ~ValidFind(req[p].find)
                  /\ pc[p] = "done"
                  /\ ~result[p].isOk
                  /\ result[p].code \in {"MISSING", "BAD_TYPE", "BAD_REQ"}
            /\ AcceptedFind(req[p].find) =>
                  /\ ValidFind(req[p].find)
                  /\ \/ pc[p] = "fbToArray"
                     \/ pc[p] = "done" /\ result[p].isOk
                     \/ pc[p] = "done" /\ result[p].code = "DB"

\* C25 witness: a findBooks call with the search "j<s h.i", or with the
\* search "js" and the count "xx", has returned an error that is not the
\* storage layer's.
C25_Witness ==
    \E p \in Procs :
        /\ Done(p, "findBooks")
        /\ ~result[p].isOk
        /\ result[p].code # "DB"
        /\ \/ req[p].find = [search |-> JsString(<<"j", "<", "s", " ", "h", ".", "i">>)]
           \/ req[p].find = [search |-> JsString(<<"j", "s">>),
                             count |-> JsString(<<"x", "x">>)]

\* the store is as p's call found it
StoreAsBefore(p) == books = pre[p].books /\ loans = pre[p].loans

\* C26: with calls that do not overlap, the store is unchanged throughout a
\* findBooks call, and an addBook, checkoutBook or returnBook call that has
\* returned a MISSING, BAD_TYPE or BAD_REQ error has left the Books and
\* Loans collections as they were when it started.
C26_ErrorFrame ==
    \A p \in Procs :
        /\ FindCall(p) => StoreAsBefore(p)
        /\ ( /\ pc[p] = "done"
             /\ req[p].op \in {"addBook", "checkoutBook", "returnBook"}
             /\ ~result[p].isOk
             /\ result[p].code \in {"MISSING", "BAD_TYPE", "BAD_REQ"} ) =>
                StoreAsBefore(p)

\* C26 witness: a checkoutBook of a pair on loan, the book having a copy
\* left, has returned BAD_REQ after its two reads, and the store is as it
\* was.
C26_Witness ==
    \E p \in Procs :
        /\ Done(p, "checkoutBook")
        /\ result[p].code = "BAD_REQ"
        /\ result[p].message = "The patron already has this book checked out"
        /\ Copies(books, req[p].isbn) >= 1
        /\ NLoans(loans, req[p].patronId, req[p].isbn) = 1
        /\ StoreAsBefore(p)

\* C27 (as claimed): with calls that do not overlap, whenever no call is in
\* progress every open Loan record's isbn is the isbn of a Book record, and
\* the number of open loans of an isbn is at most the number of copies the
\* successful addBook calls added for it.
C27_LoansWithinCatalog ==
    NoCallInProgress =>
        /\ \A k \in 1..Len(loans) : NBooks(books, loans[k].isbn) >= 1
        /\ \A i \in Isbns : NLoansOf(loans, i) <= added[i]

====
